---- MODULE Spec2Model ----
(***************************************************************************)
(* RedisJSON (RedisDoc): one key of the store holding one JSON document,   *)
(* and the JSON.* commands of src/src/lib.rs acting on it through the      *)
(* RedisJSON methods of src/src/redisjson.rs.                              *)
(***************************************************************************)
EXTENDS Integers, Sequences, FiniteSets, TLC

(***************************************************************************)
(* Bounds of the model.                                                    *)
(***************************************************************************)
\* commands issued in one run
MaxSteps == 2
\* f64 is scaled down: the finite numbers are -MaxFinite..MaxFinite
MaxFinite == 8
\* i64 and usize are scaled down to IntBits bits
IntBits == 5

(***************************************************************************)
(* serde_json::Value.  One record shape for every variant, so that any two *)
(* values can be compared: t is the variant (named as value_name names     *)
(* it), n the number or boolean, f whether a number is an f64 (N::Float)   *)
(* rather than an integer, s the string, keys/items the members of an      *)
(* object in order, items the elements of an array.                        *)
(***************************************************************************)
JNull == [t |-> "null", f |-> FALSE, n |-> 0, s |-> "", keys |-> <<>>, items |-> <<>>]
JBool(b) == [JNull EXCEPT !.t = "boolean", !.n = IF b THEN 1 ELSE 0]
JInt(i) == [JNull EXCEPT !.t = "number", !.n = i]
JFloat(x) == [JNull EXCEPT !.t = "number", !.n = x, !.f = TRUE]
JStr(str) == [JNull EXCEPT !.t = "string", !.s = str]
JArr(elems) == [JNull EXCEPT !.t = "array", !.items = elems]
JObj(ks, vs) == [JNull EXCEPT !.t = "object", !.keys = ks, !.items = vs]

value_name(v) == v.t

\* F applied to the value of x, with x evaluated once
Bind(x, F(_)) == CHOOSE y \in {F(v) : v \in {x}} : TRUE

IsArray(v) == v.t = "array"
IsObject(v) == v.t = "object"

\* position of key k among the members of object v, 0 when absent
KeyIndex(v, k) ==
    IF \E i \in 1..Len(v.keys) : v.keys[i] = k
    THEN CHOOSE i \in 1..Len(v.keys) : v.keys[i] = k
    ELSE 0

\* Vec::remove / Vec::insert, 0-based index i as in the code
VecRemove(xs, i) == SubSeq(xs, 1, i) \o SubSeq(xs, i + 2, Len(xs))
VecInsert(xs, i, x) == SubSeq(xs, 1, i) \o <<x>> \o SubSeq(xs, i + 1, Len(xs))

(***************************************************************************)
(* f64.  NaN and the infinities are the values just outside the finite     *)
(* range; arithmetic saturates to an infinity when it leaves the range.    *)
(***************************************************************************)
PosInf == MaxFinite + 1
NegInf == -(MaxFinite + 1)
NaN == MaxFinite + 2
is_finite(x) == x >= -MaxFinite /\ x <= MaxFinite
F64 == (NegInf..PosInf) \cup {NaN}

Saturate(x) == IF x > MaxFinite THEN PosInf ELSE IF x < -MaxFinite THEN NegInf ELSE x
Sign(x) == IF x > 0 THEN 1 ELSE IF x < 0 THEN -1 ELSE 0
AbsInt(x) == IF x < 0 THEN -x ELSE x

\* num1 + num2 of json_num_incrby
FAdd(a, b) ==
    IF a = NaN \/ b = NaN THEN NaN
    ELSE IF ~is_finite(a) /\ ~is_finite(b) THEN (IF a = b THEN a ELSE NaN)
    ELSE IF ~is_finite(a) THEN a
    ELSE IF ~is_finite(b) THEN b
    ELSE Saturate(a + b)

\* num1 * num2 of json_num_multby
FMul(a, b) ==
    IF a = NaN \/ b = NaN THEN NaN
    ELSE IF ~is_finite(a) \/ ~is_finite(b)
         THEN (IF a = 0 \/ b = 0 THEN NaN
               ELSE IF Sign(a) * Sign(b) > 0 THEN PosInf ELSE NegInf)
    ELSE Saturate(a * b)

RECURSIVE IntPow(_, _)
IntPow(a, e) == IF e = 0 THEN 1 ELSE Saturate(a * IntPow(a, e - 1))

\* num1.powf(num2) of json_num_powby (IEEE 754 pow), for the exponents the
\* model issues: a natural number, an infinity or NaN
FPow(a, b) ==
    IF b = 0 \/ a = 1 THEN 1
    ELSE IF a = NaN \/ b = NaN THEN NaN
    ELSE IF b = PosInf
         THEN (IF a = -1 THEN 1 ELSE IF a = 0 THEN 0 ELSE PosInf)
    ELSE IF b = NegInf
         THEN (IF a = -1 THEN 1 ELSE IF a = 0 THEN PosInf ELSE 0)
    ELSE IF a = PosInf THEN PosInf
    ELSE IF a = NegInf THEN (IF b % 2 = 1 THEN NegInf ELSE PosInf)
    ELSE IntPow(a, b)

(***************************************************************************)
(* i64 / usize, scaled down to IntBits bits.                               *)
(***************************************************************************)
RECURSIVE Pow2(_)
Pow2(k) == IF k = 0 THEN 1 ELSE 2 * Pow2(k - 1)
I64_MAX == Pow2(IntBits - 1) - 1
I64_MIN == -Pow2(IntBits - 1)
USIZE_MAX == Pow2(IntBits) - 1

(***************************************************************************)
(* JSON text, as the sequence of its tokens.  Serialize is                 *)
(* serde_json::to_string / Value::to_string, from_str is                   *)
(* serde_json::from_str as RedisJSON::parse_str calls it.                  *)
(***************************************************************************)
Tok(kind) == [tk |-> kind, n |-> 0, f |-> FALSE, s |-> ""]
NumTok(x, isf) == [Tok("num") EXCEPT !.n = x, !.f = isf]
StrTok(str) == [Tok("str") EXCEPT !.s = str]

RECURSIVE Serialize(_)
RECURSIVE SerializeElems(_, _)
RECURSIVE SerializeMembers(_, _, _)
SerializeElems(elems, i) ==
    IF i > Len(elems) THEN <<>>
    ELSE (IF i > 1 THEN <<Tok(",")>> ELSE <<>>)
         \o Serialize(elems[i]) \o SerializeElems(elems, i + 1)
SerializeMembers(ks, vs, i) ==
    IF i > Len(ks) THEN <<>>
    ELSE (IF i > 1 THEN <<Tok(",")>> ELSE <<>>)
         \o <<StrTok(ks[i]), Tok(":")>> \o Serialize(vs[i])
         \o SerializeMembers(ks, vs, i + 1)
Serialize(v) ==
    CASE v.t = "null" -> <<Tok("null")>>
      [] v.t = "boolean" -> <<Tok(IF v.n = 1 THEN "true" ELSE "false")>>
      [] v.t = "number" -> <<NumTok(v.n, v.f)>>
      [] v.t = "string" -> <<StrTok(v.s)>>
      [] v.t = "array" -> <<Tok("[")>> \o SerializeElems(v.items, 1) \o <<Tok("]")>>
      [] v.t = "object" ->
            <<Tok("{")>> \o SerializeMembers(v.keys, v.items, 1) \o <<Tok("}")>>

\* Map::insert: a repeated key keeps its place and takes the new value
MapInsert(obj, k, v) ==
    LET i == KeyIndex(obj, k)
    IN IF i = 0 THEN JObj(Append(obj.keys, k), Append(obj.items, v))
       ELSE [obj EXCEPT !.items[i] = v]

ParseFail == [ok |-> FALSE, v |-> JNull, pos |-> 0]
ParseOk(v, pos) == [ok |-> TRUE, v |-> v, pos |-> pos]
TokAt(toks, pos) == IF pos <= Len(toks) THEN toks[pos].tk ELSE "eof"

RECURSIVE ParseValue(_, _)
RECURSIVE ParseElems(_, _, _)
RECURSIVE ParseMembers(_, _, _)
\* after "[" or after ",": one element, then "," or "]"
ParseElems(toks, pos, acc) ==
    Bind(ParseValue(toks, pos), LAMBDA r :
        IF ~r.ok THEN ParseFail
        ELSE IF TokAt(toks, r.pos) = "]"
             THEN ParseOk(JArr(Append(acc, r.v)), r.pos + 1)
        ELSE IF TokAt(toks, r.pos) = ","
             THEN ParseElems(toks, r.pos + 1, Append(acc, r.v))
        ELSE ParseFail)
\* after "{" or after ",": one "key": value, then "," or "}"
ParseMembers(toks, pos, obj) ==
    IF TokAt(toks, pos) # "str" \/ TokAt(toks, pos + 1) # ":" THEN ParseFail
    ELSE Bind(ParseValue(toks, pos + 2), LAMBDA r :
             IF ~r.ok THEN ParseFail
             ELSE IF TokAt(toks, r.pos) = "}"
                  THEN ParseOk(MapInsert(obj, toks[pos].s, r.v), r.pos + 1)
             ELSE IF TokAt(toks, r.pos) = ","
                  THEN Bind(MapInsert(obj, toks[pos].s, r.v), LAMBDA obj2 :
                           ParseMembers(toks, r.pos + 1, obj2))
             ELSE ParseFail)
ParseValue(toks, pos) ==
    LET k == TokAt(toks, pos)
    IN CASE k = "null" -> ParseOk(JNull, pos + 1)
         [] k = "true" -> ParseOk(JBool(TRUE), pos + 1)
         [] k = "false" -> ParseOk(JBool(FALSE), pos + 1)
         [] k = "num" ->
              ParseOk(IF toks[pos].f THEN JFloat(toks[pos].n) ELSE JInt(toks[pos].n),
                      pos + 1)
         [] k = "str" -> ParseOk(JStr(toks[pos].s), pos + 1)
         [] k = "[" ->
              IF TokAt(toks, pos + 1) = "]" THEN ParseOk(JArr(<<>>), pos + 2)
              ELSE ParseElems(toks, pos + 1, <<>>)
         [] k = "{" ->
              IF TokAt(toks, pos + 1) = "}" THEN ParseOk(JObj(<<>>, <<>>), pos + 2)
              ELSE ParseMembers(toks, pos + 1, JObj(<<>>, <<>>))
         [] OTHER -> ParseFail

\* serde_json::from_str: the whole text must be one value
from_str(text) ==
    Bind(ParseValue(text, 1), LAMBDA r :
        IF r.ok /\ r.pos = Len(text) + 1 THEN [ok |-> TRUE, v |-> r.v]
        ELSE [ok |-> FALSE, v |-> JNull])

\* the message of a serde_json::Error
ParseErrorMsg == "expected value at line 1 column 1"

(***************************************************************************)
(* Paths.  A path is the sequence of its segments after "$": a member      *)
(* name, or "*" for every child.  <<>> is "$".  A path with the segment    *)
(* "[" (an unterminated bracket) does not compile.                         *)
(***************************************************************************)
RootPath == <<>>
Wild == "*"
BadSeg == "["
IsMalformed(path) == \E i \in 1..Len(path) : path[i] = BadSeg

\* the message of Error::from(JsonPathError)
PathErrorMsg == "Path(\"parse error\")"

\* A location is the sequence of steps from the root to a node; a step is
\* a member name (k) or an element index (0-based, i) of the parent.
KeyStep(k) == [k |-> k, i |-> -1]
IdxStep(i) == [k |-> "", i |-> i]

\* the steps from v to its children that segment seg selects, in order
ChildSteps(v, seg) ==
    IF IsObject(v)
    THEN (IF seg = Wild THEN [j \in 1..Len(v.keys) |-> KeyStep(v.keys[j])]
          ELSE IF KeyIndex(v, seg) # 0 THEN <<KeyStep(seg)>> ELSE <<>>)
    ELSE IF IsArray(v) /\ seg = Wild
    THEN [j \in 1..Len(v.items) |-> IdxStep(j - 1)]
    ELSE <<>>

Child(v, step) ==
    IF IsObject(v) THEN v.items[KeyIndex(v, step.k)] ELSE v.items[step.i + 1]

\* jsonpath_lib::select / SelectorMut::select + compute_paths: the
\* locations of the nodes the path matches, in document order
RECURSIVE Select(_, _)
RECURSIVE SelectUnder(_, _, _, _)
SelectUnder(v, steps, i, rest) ==
    IF i > Len(steps) THEN <<>>
    ELSE Bind(Select(Child(v, steps[i]), rest), LAMBDA below :
             [j \in 1..Len(below) |-> <<steps[i]>> \o below[j]])
         \o SelectUnder(v, steps, i + 1, rest)
Select(v, path) ==
    IF path = <<>> THEN << <<>> >>
    ELSE Bind(ChildSteps(v, Head(path)), LAMBDA steps :
             SelectUnder(v, steps, 1, Tail(path)))

RECURSIVE GetAt(_, _)
GetAt(v, loc) == IF loc = <<>> THEN v ELSE GetAt(Child(v, Head(loc)), Tail(loc))

\* the tree with the node at loc replaced by new
RECURSIVE PutAt(_, _, _)
PutAt(v, loc, new) ==
    IF loc = <<>> THEN new
    ELSE LET j == IF IsObject(v) THEN KeyIndex(v, Head(loc).k) ELSE Head(loc).i + 1
         IN [v EXCEPT !.items[j] = PutAt(v.items[j], Tail(loc), new)]

\* the tree with the node at loc (not the root) removed from its parent
RECURSIVE RemoveAt(_, _)
RemoveAt(v, loc) ==
    LET j == IF IsObject(v) THEN KeyIndex(v, Head(loc).k) ELSE Head(loc).i + 1
    IN IF Len(loc) = 1
       THEN (IF IsObject(v)
             THEN JObj(VecRemove(v.keys, j - 1), VecRemove(v.items, j - 1))
             ELSE JArr(VecRemove(v.items, j - 1)))
       ELSE [v EXCEPT !.items[j] = RemoveAt(v.items[j], Tail(loc))]

(***************************************************************************)
(* The transforms the commands hand to value_op.  A transform is named by  *)
(* a record op; cs is what the closure captured by mutable reference       *)
(* (index, json and args of ARRINSERT, index and res of ARRPOP, start and  *)
(* stop of ARRTRIM), which lives on from one match to the next.            *)
(***************************************************************************)
NoOp == [kind |-> "none", fun |-> "", number |-> 0, str |-> ""]
NoCapture == [index |-> 0, json |-> <<>>, args |-> <<>>, start |-> 0, stop |-> 0,
              res |-> JNull]

TOk(v, cs) == [ok |-> TRUE, panic |-> FALSE, val |-> v, msg |-> "", cs |-> cs]
TErr(m, cs) == [ok |-> FALSE, panic |-> FALSE, val |-> JNull, msg |-> m, cs |-> cs]
TPanic(cs) == [ok |-> FALSE, panic |-> TRUE, val |-> JNull, msg |-> "", cs |-> cs]

err_json(value, expected) ==
    "ERR wrong type of path value - expected " \o expected \o " but found "
        \o value_name(value)

\* Number::from_f64 taken to accept every f64
from_f64_accepts_all(x) == TRUE

\* Number::from_f64: None for NaN and the infinities
from_f64_is_some(x) == is_finite(x)

\* the closure of json_num_op
NumTransform(op, cs, value) ==
    IF value.t # "number" THEN TErr(err_json(value, "number"), cs)
    ELSE LET res == CASE op.fun = "incr" -> FAdd(value.n, op.number)
                      [] op.fun = "mult" -> FMul(value.n, op.number)
                      [] op.fun = "pow" -> FPow(value.n, op.number)
         IN IF from_f64_is_some(res) THEN TOk(JFloat(res), cs)
            ELSE TErr("ERR cannot represent result as Number", cs)

\* the closure of json_str_append: the argument is appended as it is given
StrAppendTransform(op, cs, value) ==
    IF value.t # "string" THEN TErr(err_json(value, "string"), cs)
    ELSE TOk(JStr(value.s \o op.str), cs)

\* args.map(from_str).collect::<Result<_, _>>()
RECURSIVE ParseAll(_, _)
ParseAll(texts, i) ==
    IF i > Len(texts) THEN [ok |-> TRUE, vs |-> <<>>]
    ELSE Bind(from_str(texts[i]), LAMBDA r :
         Bind(ParseAll(texts, i + 1), LAMBDA rest :
             IF r.ok /\ rest.ok THEN [ok |-> TRUE, vs |-> <<r.v>> \o rest.vs]
             ELSE [ok |-> FALSE, vs |-> <<>>]))

\* the closure of json_arr_append; args is cloned for every match
ArrAppendTransform(op, cs, value) ==
    IF ~IsArray(value) THEN TErr(err_json(value, "array"), cs)
    ELSE Bind(ParseAll(cs.args, 1), LAMBDA items :
             IF items.ok THEN TOk(JArr(value.items \o items.vs), cs)
             ELSE TErr(ParseErrorMsg, cs))

\* the loop of json_arr_insert: parse json, insert it at index, advance
\* index, take the next argument; a parse failure leaves the closure
RECURSIVE InsertLoop(_, _)
InsertLoop(res, cs) ==
    Bind(from_str(cs.json), LAMBDA r :
        IF ~r.ok THEN TErr(ParseErrorMsg, cs)
        ELSE Bind(VecInsert(res, cs.index, r.v), LAMBDA res2 :
             Bind([cs EXCEPT !.index = cs.index + 1], LAMBDA cs2 :
                 IF cs.args # <<>>
                 THEN Bind([cs2 EXCEPT !.json = Head(cs.args), !.args = Tail(cs.args)],
                           LAMBDA cs3 : InsertLoop(res2, cs3))
                 ELSE TOk(JArr(res2), cs2))))

\* the closure of json_arr_insert.  i64::abs(i64::MIN) overflows: a panic
\* with overflow checks, i64::MIN without; the index then stays negative
\* and Vec::insert panics on it
ArrInsertTransform(op, cs, value, checks) ==
    IF ~IsArray(value)
    THEN TErr("ERR wrong type of path value - expected a string but found "
                  \o value_name(value), cs)
    ELSE LET len == Len(value.items)
         IN IF cs.index = I64_MIN /\ checks THEN TPanic(cs)
            ELSE LET abs == IF cs.index = I64_MIN THEN I64_MIN ELSE AbsInt(cs.index)
                 IN IF abs >= len THEN TErr("ERR index out of bounds", cs)
                    ELSE Bind(IF cs.index < 0 THEN [cs EXCEPT !.index = len + cs.index]
                              ELSE cs,
                              LAMBDA cs1 :
                                  IF cs1.index < 0 \/ cs1.index > len THEN TPanic(cs1)
                                  ELSE InsertLoop(value.items, cs1))

Min(a, b) == IF a < b THEN a ELSE b
Max(a, b) == IF a > b THEN a ELSE b

\* the closure of json_arr_pop
ArrPopTransform(op, cs, value) ==
    IF ~IsArray(value)
    THEN TErr("ERR wrong type of path value - expected a array but found "
                  \o value_name(value), cs)
    ELSE LET len == Len(value.items)
             i1 == Min(cs.index, len - 1)
             i2 == IF i1 < 0 THEN len + i1 ELSE i1
             cs2 == [cs EXCEPT !.index = i2]
         IN IF i2 >= len \/ i2 < 0 THEN TErr("ERR index out of bounds", cs2)
            ELSE TOk(JArr(VecRemove(value.items, i2)),
                     [cs2 EXCEPT !.res = value.items[i2 + 1]])

\* the closure of json_arr_trim.  curr.len() - 1 on an empty array
\* underflows usize: a panic with overflow checks, usize::MAX without;
\* &curr[start..stop] panics when stop is beyond the length
ArrTrimTransform(op, cs, value, checks) ==
    IF ~IsArray(value)
    THEN TErr("ERR wrong type of path value - expected a array but found "
                  \o value_name(value), cs)
    ELSE LET len == Len(value.items)
         IN IF len = 0 /\ checks THEN TPanic(cs)
            ELSE LET start1 == Max(cs.start, 0)
                     stop1 == Min(cs.stop, IF len = 0 THEN USIZE_MAX ELSE len - 1)
                     start2 == Min(stop1, start1)
                     cs2 == [cs EXCEPT !.start = start2, !.stop = stop1]
                 IN IF stop1 > len THEN TPanic(cs2)
                    ELSE TOk(JArr(SubSeq(value.items, start2 + 1, stop1)), cs2)

Transform(op, cs, value, checks) ==
    CASE op.kind = "num" -> NumTransform(op, cs, value)
      [] op.kind = "strappend" -> StrAppendTransform(op, cs, value)
      [] op.kind = "arrappend" -> ArrAppendTransform(op, cs, value)
      [] op.kind = "arrinsert" -> ArrInsertTransform(op, cs, value, checks)
      [] op.kind = "arrpop" -> ArrPopTransform(op, cs, value)
      [] op.kind = "arrtrim" -> ArrTrimTransform(op, cs, value, checks)

(***************************************************************************)
(* RedisJSON::value_op                                                     *)
(***************************************************************************)
\* collect_fun on one match: a new value replaces the match and becomes the
\* result; a failure is pushed to errors and the match keeps its value
collect_fun(st, loc, op, checks) ==
    Bind(GetAt(st.data, loc), LAMBDA value :
    Bind(Transform(op, st.cs, value, checks), LAMBDA r :
        IF r.panic THEN [st EXCEPT !.panic = TRUE, !.cs = r.cs]
        ELSE IF r.ok
             THEN [st EXCEPT !.data = PutAt(st.data, loc, r.val), !.result = r.val,
                             !.cs = r.cs]
        ELSE [st EXCEPT !.errors = Append(st.errors, r.msg), !.cs = r.cs]))

\* replace_with(&mut |v| Some(collect_fun(v))): the matches in order
RECURSIVE ReplaceEach(_, _, _, _, _)
ReplaceEach(st, locs, i, op, checks) ==
    IF i > Len(locs) \/ st.panic THEN st
    ELSE Bind(collect_fun(st, locs[i], op, checks), LAMBDA st2 :
             ReplaceEach(st2, locs, i + 1, op, checks))

\* errors.into_iter().map(|e| e.msg).collect::<String>()
RECURSIVE ConcatMsgs(_)
ConcatMsgs(msgs) == IF msgs = <<>> THEN "" ELSE Head(msgs) \o ConcatMsgs(Tail(msgs))

\* value_op reporting only the first of the failures
ErrorsToResult_first(st) ==
    [ok |-> Len(st.errors) = 0,
     msg |-> IF Len(st.errors) = 0 THEN "" ELSE st.errors[1],
     result |-> st.result, data |-> st.data, cs |-> st.cs, panic |-> st.panic,
     errors |-> st.errors]

\* match errors.len() { 0 => Ok(result), 1 => Err(..), _ => Err(concat) }
ErrorsToResult(st) ==
    [ok |-> Len(st.errors) = 0,
     msg |-> IF Len(st.errors) = 1 THEN st.errors[1] ELSE ConcatMsgs(st.errors),
     result |-> st.result, data |-> st.data, cs |-> st.cs, panic |-> st.panic,
     errors |-> st.errors]

\* value_op failing when the path matches no node
value_op_not_found(data, path, op, cs, checks) ==
    Bind([data |-> data, errors |-> <<>>, result |-> JNull, cs |-> cs, panic |-> FALSE],
         LAMBDA st0 :
    Bind(IF path = RootPath THEN collect_fun(st0, <<>>, op, checks)
         ELSE IF IsMalformed(path) THEN [st0 EXCEPT !.errors = <<PathErrorMsg>>]
         ELSE Bind(Select(data, path), LAMBDA locs :
                  IF locs = <<>> THEN [st0 EXCEPT !.errors = <<"ERR path does not exist">>]
                  ELSE ReplaceEach(st0, locs, 1, op, checks)),
         LAMBDA st : ErrorsToResult(st)))

value_op(data, path, op, cs, checks) ==
    Bind([data |-> data, errors |-> <<>>, result |-> JNull, cs |-> cs, panic |-> FALSE],
         LAMBDA st0 :
    Bind(IF path = RootPath THEN collect_fun(st0, <<>>, op, checks)
         ELSE IF IsMalformed(path) THEN [st0 EXCEPT !.errors = <<PathErrorMsg>>]
         ELSE Bind(Select(data, path), LAMBDA locs : ReplaceEach(st0, locs, 1, op, checks)),
         LAMBDA st : ErrorsToResult(st)))

(***************************************************************************)
(* RedisJSON::set_value, add_value, delete_path                            *)
(***************************************************************************)
MOk(flag, data) == [ok |-> TRUE, val |-> flag, count |-> 0, msg |-> "", data |-> data]
MErr(m, data) == [ok |-> FALSE, val |-> FALSE, count |-> 0, msg |-> m, data |-> data]

\* NodeVisitorImpl::check: Err for a path that does not compile; Ok(true)
\* for a path whose last segment names a member, whatever its prefix
\* (add_value is specified for a prefix that resolves to one or more
\* containers); Ok(false) otherwise
check(path) ==
    [ok |-> ~IsMalformed(path),
     val |-> ~IsMalformed(path) /\ path # <<>> /\ path[Len(path)] # Wild]

\* the closure of add_value over the matched containers in order: an
\* object without the key gets it and sets the flag, an object with the
\* key clears the flag, anything else is put back as it is
RECURSIVE AddEach(_, _, _, _, _)
AddEach(st, locs, i, key, value) ==
    IF i > Len(locs) THEN st
    ELSE Bind(GetAt(st.data, locs[i]), LAMBDA ret :
         Bind(IF IsObject(ret)
              THEN (IF KeyIndex(ret, key) # 0 THEN [st EXCEPT !.set = FALSE]
                    ELSE [data |-> PutAt(st.data, locs[i], MapInsert(ret, key, value)),
                          set |-> TRUE])
              ELSE st,
              LAMBDA st2 : AddEach(st2, locs, i + 1, key, value)))

add_value(data, path, value) ==
    IF ~check(path).ok THEN MErr(PathErrorMsg, data)
    ELSE IF ~check(path).val THEN MErr("Err: wrong static path", data)
    ELSE LET key == path[Len(path)]
             prefix == SubSeq(path, 1, Len(path) - 1)
         IN IF prefix = RootPath
            THEN (IF IsObject(data) /\ KeyIndex(data, key) = 0
                  THEN MOk(TRUE, MapInsert(data, key, value))
                  ELSE MOk(FALSE, data))
            ELSE Bind(Select(data, prefix), LAMBDA locs :
                 Bind(AddEach([data |-> data, set |-> FALSE], locs, 1, key, value),
                      LAMBDA st : MOk(st.set, st.data)))

\* replace_with(current_data, path, |_v| Some(json.clone()))
RECURSIVE PutEach(_, _, _, _)
PutEach(data, locs, i, json) ==
    IF i > Len(locs) THEN data
    ELSE Bind(PutAt(data, locs[i], json), LAMBDA data2 : PutEach(data2, locs, i + 1, json))

\* set_value leaving the document as it is at the root path
set_value_root_kept(data, text, path, option) ==
    Bind(from_str(text), LAMBDA json :
        IF ~json.ok THEN MErr(ParseErrorMsg, data)
        ELSE IF path = RootPath
             THEN (IF option = "NotExists" THEN MOk(FALSE, data) ELSE MOk(TRUE, data))
        ELSE IF option # "NotExists" /\ IsMalformed(path) THEN MErr(PathErrorMsg, JNull)
        ELSE Bind(IF option # "NotExists" THEN Select(data, path) ELSE <<>>, LAMBDA locs :
             Bind(PutEach(data, locs, 1, json.v), LAMBDA data1 :
                 IF locs # <<>> THEN MOk(TRUE, data1)
                 ELSE IF option # "AlreadyExists" THEN add_value(data1, path, json.v)
                 ELSE MOk(FALSE, data1))))

\* self.data.take() leaves Value::Null in the document, and the `?` on a
\* failed replace_with returns before self.data is assigned again
set_value(data, text, path, option) ==
    Bind(from_str(text), LAMBDA json :
        IF ~json.ok THEN MErr(ParseErrorMsg, data)
        ELSE IF path = RootPath
             THEN (IF option = "NotExists" THEN MOk(FALSE, data) ELSE MOk(TRUE, json.v))
        ELSE IF option # "NotExists" /\ IsMalformed(path) THEN MErr(PathErrorMsg, JNull)
        ELSE Bind(IF option # "NotExists" THEN Select(data, path) ELSE <<>>, LAMBDA locs :
             Bind(PutEach(data, locs, 1, json.v), LAMBDA data1 :
                 IF locs # <<>> THEN MOk(TRUE, data1)
                 ELSE IF option # "AlreadyExists" THEN add_value(data1, path, json.v)
                 ELSE MOk(FALSE, data1))))

\* replace_with(current_data, path, |v| None): every match is removed
\* (from the last to the first, so that the locations stay valid)
RECURSIVE RemoveEach(_, _, _)
RemoveEach(data, locs, i) ==
    IF i < 1 THEN data
    ELSE Bind(RemoveAt(data, locs[i]), LAMBDA data2 : RemoveEach(data2, locs, i - 1))

\* delete_path counting every match
CountAll(data, locs) == Len(locs)

\* deleted counts the matches that are not null
CountNonNull(data, locs) == Cardinality({i \in 1..Len(locs) : GetAt(data, locs[i]).t # "null"})

delete_path(data, path) ==
    IF IsMalformed(path) THEN MErr(PathErrorMsg, JNull)
    ELSE Bind(Select(data, path), LAMBDA locs :
             [MOk(TRUE, RemoveEach(data, locs, Len(locs)))
                 EXCEPT !.count = CountNonNull(data, locs)])

(***************************************************************************)
(* The reads of RedisJSON                                                  *)
(***************************************************************************)
ROk(v) == [ok |-> TRUE, panic |-> FALSE, v |-> v, int |-> 0, msg |-> ""]
RInt(i) == [ok |-> TRUE, panic |-> FALSE, v |-> JNull, int |-> i, msg |-> ""]
RErr(m) == [ok |-> FALSE, panic |-> FALSE, v |-> JNull, int |-> 0, msg |-> m]
RPanic == [ok |-> FALSE, panic |-> TRUE, v |-> JNull, int |-> 0, msg |-> ""]

get_doc(data, path) ==
    IF IsMalformed(path) THEN RErr(PathErrorMsg)
    ELSE Bind(Select(data, path), LAMBDA results :
             IF results = <<>> THEN RErr("ERR path does not exist")
             ELSE ROk(GetAt(data, results[1])))

\* str_len, arr_len, obj_len: the length of the first match when it is of
\* the wanted type
len_of(data, path, type) ==
    Bind(get_doc(data, path), LAMBDA d :
        IF ~d.ok THEN d
        ELSE IF d.v.t # type THEN RErr("ERR wrong type of path value")
        ELSE RInt(IF type = "string" THEN Len(d.v.s) ELSE Len(d.v.items)))

\* slice.iter().position(|r| r == &v) over arr[start..=end], 0-based
Position(arr, start, end, v) ==
    IF \E i \in start..end : arr[i + 1] = v
    THEN CHOOSE i \in start..end : arr[i + 1] = v /\ \A j \in start..(i - 1) : arr[j + 1] # v
    ELSE -1

\* RedisJSON::arr_index.  arr.len() - 1 on an empty array underflows usize
\* (a panic with overflow checks, usize::MAX without), and &arr[start..=end]
\* panics when end is not below the length
arr_index(data, path, scalar, start, end, checks) ==
    Bind(get_doc(data, path), LAMBDA d :
        IF ~d.ok THEN d
        ELSE IF ~IsArray(d.v) THEN RInt(-1)
        ELSE Bind(from_str(scalar), LAMBDA v :
                 LET len == Len(d.v.items)
                     end1 == Min(end, IF len = 0 THEN USIZE_MAX ELSE len - 1)
                     start1 == Min(end1, Max(start, 0))
                 IN IF ~v.ok THEN RErr(ParseErrorMsg)
                    ELSE IF IsArray(v.v) \/ IsObject(v.v) THEN RInt(-1)
                    ELSE IF len = 0 /\ checks THEN RPanic
                    ELSE IF end1 >= len THEN RPanic
                    ELSE RInt(Position(d.v.items, start1, end1, v.v))))

(***************************************************************************)
(* The state: the one key the commands are issued on.                      *)
(***************************************************************************)
VARIABLES
    store,           \* <<>> when the key holds nothing, <<v>> when it holds document v
    overflowChecks,  \* whether the build panics on integer overflow (debug) or wraps
    crashed,         \* a command handler panicked
    last,            \* the last command: its arguments, the store before it, its reply
    steps,           \* commands issued so far
    rdb              \* <<>>, or <<the encoding version and text saved for the key>>

vars == <<store, overflowChecks, crashed, last, steps, rdb>>

\* replies, as the RedisValue / RedisError the handler returns
NoReply == [kind |-> "none", int |-> 0, text |-> <<>>, val |-> JNull, msg |-> "",
            keys |-> <<>>]
ReplyOk == [NoReply EXCEPT !.kind = "ok"]
ReplyNil == [NoReply EXCEPT !.kind = "nil"]
ReplyInt(i) == [NoReply EXCEPT !.kind = "int", !.int = i]
ReplyBulk(text) == [NoReply EXCEPT !.kind = "bulk", !.text = text]
ReplyStr(str) == [NoReply EXCEPT !.kind = "string", !.msg = str]
ReplyValue(v) == [NoReply EXCEPT !.kind = "value", !.val = v]
ReplyKeys(ks) == [NoReply EXCEPT !.kind = "keys", !.keys = ks]
ReplyErr(m) == [NoReply EXCEPT !.kind = "err", !.msg = m]
ReplyArray(r) == [r EXCEPT !.kind = "array:" \o r.kind]
Panicked == [NoReply EXCEPT !.kind = "panic"]

KeyErrorMsg == "ERR could not perform this operation on a key that doesn't exist"

NoCmd == [cmd |-> "", path |-> <<>>, opt |-> "", text |-> <<>>, texts |-> <<>>,
          fun |-> "", number |-> 0, str |-> "", index |-> 0, start |-> 0,
          stop |-> 0, before |-> <<>>, reply |-> NoReply]

(***************************************************************************)
(* The inputs the commands are issued with.                                *)
(***************************************************************************)
DocScenario == JObj(<<"a", "b">>, <<JInt(1), JArr(<<JInt(1), JInt(2), JInt(3)>>)>>)
DocNullStr == JObj(<<"a", "b">>, <<JNull, JStr("x")>>)
DocArrays == JObj(<<"a", "b">>, <<JArr(<<>>), JArr(<<JInt(1), JInt(2), JInt(1)>>)>>)
DocNumber == JInt(3)
SeedDocs == {DocScenario, DocNullStr, DocArrays, DocNumber}

BadPath == <<BadSeg>>
Paths == {RootPath, <<"a">>, <<"b">>, <<"c">>, <<Wild>>, BadPath}

TextFive == Serialize(JInt(5))
TextSeven == Serialize(JInt(7))
TextOne == Serialize(JInt(1))
TextArr == Serialize(JArr(<<JInt(1)>>))
TextObj == Serialize(JObj(<<"k">>, <<JArr(<<JBool(TRUE), JNull>>)>>))
BadText == <<Tok("{")>>

Init ==
    /\ store \in {<<>>} \cup {<<d>> : d \in SeedDocs}
    /\ overflowChecks \in BOOLEAN
    /\ crashed = FALSE
    /\ last = NoCmd
    /\ steps = 0
    /\ rdb = <<>>

CanStep == ~crashed /\ steps < MaxSteps

\* what every step does besides its own effect
Step(cmd, reply, newStore) ==
    /\ last' = [cmd EXCEPT !.before = store, !.reply = reply]
    /\ store' = newStore
    /\ crashed' = (reply.kind = "panic")
    /\ steps' = steps + 1
    /\ UNCHANGED overflowChecks
\* a command: nothing is written to the RDB file
Done(cmd, reply, newStore) == Step(cmd, reply, newStore) /\ UNCHANGED rdb

(***************************************************************************)
(* JSON.DEL <key> <path>                                                   *)
(***************************************************************************)
\* JSON.DEL failing on a key that holds no document
json_del_key_error ==
    /\ CanStep
    /\ \E path \in Paths :
          LET cmd == [NoCmd EXCEPT !.cmd = "DEL", !.path = path]
          IN IF store = <<>> THEN Done(cmd, ReplyErr(KeyErrorMsg), store)
             ELSE IF path = RootPath THEN Done(cmd, ReplyInt(1), <<>>)
             ELSE \E r \in {delete_path(store[1], path)} :
                     Done(cmd, IF r.ok THEN ReplyInt(r.count) ELSE ReplyErr(r.msg),
                          <<r.data>>)


json_del ==
    /\ CanStep
    /\ \E path \in Paths :
          LET cmd == [NoCmd EXCEPT !.cmd = "DEL", !.path = path]
          IN IF store = <<>> THEN Done(cmd, ReplyInt(0), store)
             ELSE IF path = RootPath THEN Done(cmd, ReplyInt(1), <<>>)
             ELSE \E r \in {delete_path(store[1], path)} :
                     Done(cmd, IF r.ok THEN ReplyInt(r.count) ELSE ReplyErr(r.msg),
                          <<r.data>>)

(***************************************************************************)
(* JSON.SET <key> <path> <json> [NX | XX]                                  *)
(***************************************************************************)
\* The call doc.set_value(&value, &path) hands set_value neither the guard
\* nor a format: set_value runs unguarded on JSON text.
SetArgs ==
    [path : {RootPath, <<"a">>, <<"c">>, BadPath}, text : {TextFive}, opt : {"", "NX", "XX"}]
    \cup [path : {<<"c">>}, text : {TextSeven}, opt : {"", "NX"}]
    \cup [path : {RootPath, <<"c">>}, text : {BadText}, opt : {""}]
    \cup [path : {RootPath}, text : {TextArr, TextObj}, opt : {""}]

json_set ==
    /\ CanStep
    /\ \E a \in SetArgs :
          LET path == a.path
              text == a.text
              opt == a.opt
               cmd == [NoCmd EXCEPT !.cmd = "SET", !.path = path, !.text = text,
                                   !.opt = opt]
          IN IF store # <<>> /\ opt = "NX" THEN Done(cmd, ReplyNil, store)
             ELSE IF store # <<>>
                  THEN \E r \in {set_value(store[1], text, path, "None")} :
                          Done(cmd, IF r.ok THEN ReplyOk ELSE ReplyErr(r.msg), <<r.data>>)
             ELSE IF opt = "XX" THEN Done(cmd, ReplyNil, store)
             ELSE \E doc \in {from_str(text)} :
                     IF ~doc.ok THEN Done(cmd, ReplyErr(ParseErrorMsg), store)
                     ELSE IF path = RootPath THEN Done(cmd, ReplyOk, <<doc.v>>)
                     ELSE Done(cmd,
                               ReplyErr("ERR new objects must be created at the root"),
                               store)

(***************************************************************************)
(* The commands that go through value_op.                                  *)
(***************************************************************************)
\* the closure a command builds from its arguments, and what it captures
OpOf(cmd) ==
    [kind |-> CASE cmd.cmd = "NUM" -> "num"
                [] cmd.cmd = "STRAPPEND" -> "strappend"
                [] cmd.cmd = "ARRAPPEND" -> "arrappend"
                [] cmd.cmd = "ARRINSERT" -> "arrinsert"
                [] cmd.cmd = "ARRPOP" -> "arrpop"
                [] cmd.cmd = "ARRTRIM" -> "arrtrim"
                [] OTHER -> "none",
     fun |-> cmd.fun, number |-> cmd.number, str |-> cmd.str]
CaptureOf(cmd) ==
    CASE cmd.cmd = "ARRAPPEND" -> [NoCapture EXCEPT !.args = cmd.texts]
      [] cmd.cmd = "ARRINSERT" ->
            [NoCapture EXCEPT !.index = cmd.index, !.json = Head(cmd.texts),
                              !.args = Tail(cmd.texts)]
      [] cmd.cmd = "ARRPOP" -> [NoCapture EXCEPT !.index = cmd.index]
      [] cmd.cmd = "ARRTRIM" -> [NoCapture EXCEPT !.start = cmd.start, !.stop = cmd.stop]
      [] OTHER -> NoCapture

\* JSON.NUMINCRBY / NUMMULTBY / NUMPOWBY <key> <path> <number>
\* NUMPOWBY is issued with an exponent that is a natural number, an
\* infinity or NaN, so that the finite results are integers
NumArgs ==
    [fun : {"incr", "mult", "pow"}, path : {<<"a">>, <<Wild>>}, number : {2, PosInf}]
    \cup [fun : {"incr", "mult", "pow"}, path : {RootPath}, number : {2}]
    \cup [fun : {"incr", "mult"}, path : {<<"a">>}, number : {-1, NaN}]

json_num_op ==
    /\ CanStep
    /\ \E a \in NumArgs :
          /\ LET fun == a.fun
                 path == a.path
                 number == a.number
                 cmd == [NoCmd EXCEPT !.cmd = "NUM", !.fun = fun, !.path = path,
                                     !.number = number]
             IN IF store = <<>> THEN Done(cmd, ReplyErr(KeyErrorMsg), store)
                ELSE \E r \in {value_op(store[1], path, OpOf(cmd), CaptureOf(cmd), overflowChecks)} :
                        Done(cmd, IF r.ok THEN ReplyValue(r.result) ELSE ReplyErr(r.msg),
                             <<r.data>>)

\* v.len() of the result of value_op
ValueLen(v) == IF v.t = "string" THEN Len(v.s) ELSE Len(v.items)

\* JSON.STRAPPEND <key> [path] <json-string>
json_str_append ==
    /\ CanStep
    /\ \E path \in {RootPath, <<"b">>, <<Wild>>}, str \in {"y"} :
          LET cmd == [NoCmd EXCEPT !.cmd = "STRAPPEND", !.path = path, !.str = str]
          IN IF store = <<>> THEN Done(cmd, ReplyErr(KeyErrorMsg), store)
             ELSE \E r \in {value_op(store[1], path, OpOf(cmd), CaptureOf(cmd), overflowChecks)} :
                     Done(cmd, IF r.ok THEN ReplyInt(ValueLen(r.result))
                               ELSE ReplyErr(r.msg),
                          <<r.data>>)

\* JSON.ARRAPPEND <key> <path> <json> [json ...]
json_arr_append ==
    /\ CanStep
    /\ \E path \in {<<"b">>, <<Wild>>},
          texts \in {<<TextFive>>, <<TextFive, TextArr>>, <<TextFive, BadText>>} :
          LET cmd == [NoCmd EXCEPT !.cmd = "ARRAPPEND", !.path = path, !.texts = texts]
          IN IF store = <<>> THEN Done(cmd, ReplyErr(KeyErrorMsg), store)
             ELSE \E r \in {value_op(store[1], path, OpOf(cmd), CaptureOf(cmd), overflowChecks)} :
                     Done(cmd, IF r.ok THEN ReplyInt(ValueLen(r.result))
                               ELSE ReplyErr(r.msg),
                          <<r.data>>)

\* what a command replies after value_op when the closure panicked
AfterValueOp(r, reply) ==
    IF r.panic THEN Panicked ELSE IF r.ok THEN reply ELSE ReplyErr(r.msg)
\* a panic takes the server down before self.data is assigned
StoreAfter(r) == IF r.panic THEN store ELSE <<r.data>>

\* JSON.ARRINSERT <key> <path> <index> <json> [json ...]
InsertArgs ==
    [path : {<<"a">>, <<"b">>}, index : {I64_MIN, -3, -1, 0, 1, 3},
     texts : {<<TextFive, TextSeven>>}]
    \cup [path : {<<"b">>}, index : {-4, 2}, texts : {<<TextFive>>, <<TextFive, BadText>>}]
    \cup [path : {<<Wild>>}, index : {-1, 0}, texts : {<<TextFive, TextSeven>>}]
json_arr_insert ==
    /\ CanStep
    /\ \E a \in InsertArgs :
          LET path == a.path
              index == a.index
              texts == a.texts
              cmd == [NoCmd EXCEPT !.cmd = "ARRINSERT", !.path = path, !.index = index,
                                   !.texts = texts]
          IN IF store = <<>> THEN Done(cmd, ReplyErr(KeyErrorMsg), store)
             ELSE \E r \in {value_op(store[1], path, OpOf(cmd), CaptureOf(cmd), overflowChecks)} :
                     Done(cmd, AfterValueOp(r, ReplyValue(r.result)), StoreAfter(r))

\* JSON.ARRPOP <key> [path [index]]; without an index it is i64::MAX
PopArgs ==
    [path : {<<"b">>}, index : {I64_MAX, -4, -3, -1, 0, 1, 4}]
    \cup [path : {RootPath, <<"a">>, <<Wild>>}, index : {I64_MAX, 0}]
json_arr_pop ==
    /\ CanStep
    /\ \E a \in PopArgs :
          LET path == a.path
              index == a.index
              cmd == [NoCmd EXCEPT !.cmd = "ARRPOP", !.path = path, !.index = index]
          IN IF store = <<>> THEN Done(cmd, ReplyErr(KeyErrorMsg), store)
             ELSE \E r \in {value_op(store[1], path, OpOf(cmd), CaptureOf(cmd), overflowChecks)} :
                     Done(cmd, AfterValueOp(r, ReplyBulk(Serialize(r.cs.res))),
                          StoreAfter(r))

\* JSON.ARRTRIM <key> <path> <start> <stop>; start and stop are usize
TrimArgs ==
    [path : {<<"b">>}, start : {0, 1, 2, 4}, stop : {0, 1, 4}]
    \cup [path : {<<"a">>}, start : {0}, stop : {0, 1}]
    \cup [path : {<<Wild>>}, start : {0}, stop : {1}]
json_arr_trim ==
    /\ CanStep
    /\ \E a \in TrimArgs :
          LET path == a.path
              start == a.start
              stop == a.stop
              cmd == [NoCmd EXCEPT !.cmd = "ARRTRIM", !.path = path, !.start = start,
                                   !.stop = stop]
          IN IF store = <<>> THEN Done(cmd, ReplyErr(KeyErrorMsg), store)
             ELSE \E r \in {value_op(store[1], path, OpOf(cmd), CaptureOf(cmd), overflowChecks)} :
                     Done(cmd, AfterValueOp(r, ReplyValue(r.result)), StoreAfter(r))

(***************************************************************************)
(* The reads.                                                              *)
(***************************************************************************)
FromRead(r, reply) == IF r.panic THEN Panicked ELSE IF r.ok THEN reply ELSE ReplyErr(r.msg)

\* JSON.ARRINDEX <key> <path> <json-scalar> [start [stop]]; without them
\* start is 0 and stop is usize::MAX
IndexArgs ==
    [path : {<<"b">>}, scalar : {TextOne, TextFive}, start : {0, 1, 4},
     stop : {1, USIZE_MAX}]
    \cup [path : {<<"b">>}, scalar : {TextArr}, start : {0}, stop : {USIZE_MAX}]
    \cup [path : {<<"a">>}, scalar : {TextOne}, start : {0}, stop : {0, USIZE_MAX}]
json_arr_index ==
    /\ CanStep
    /\ \E a \in IndexArgs :
          LET path == a.path
              scalar == a.scalar
              start == a.start
              end == a.stop
              cmd == [NoCmd EXCEPT !.cmd = "ARRINDEX", !.path = path, !.text = scalar,
                                   !.start = start, !.stop = end]
          IN IF store = <<>> THEN Done(cmd, ReplyInt(-1), store)
             ELSE \E r \in {arr_index(store[1], path, scalar, start, end, overflowChecks)} :
                     Done(cmd, FromRead(r, ReplyInt(r.int)), store)

\* JSON.GET <key> [path]
json_get ==
    /\ CanStep
    /\ \E path \in {RootPath, <<"a">>, <<"c">>, BadPath} :
          LET cmd == [NoCmd EXCEPT !.cmd = "GET", !.path = path]
          IN IF store = <<>> THEN Done(cmd, ReplyNil, store)
             ELSE \E r \in {get_doc(store[1], path)} :
                     Done(cmd, FromRead(r, ReplyBulk(Serialize(r.v))), store)

\* JSON.MGET <key> <path>, with the one key of the model
json_mget ==
    /\ CanStep
    /\ \E path \in {<<"a">>} :
          LET cmd == [NoCmd EXCEPT !.cmd = "MGET", !.path = path]
          IN IF store = <<>> THEN Done(cmd, ReplyArray(ReplyNil), store)
             ELSE \E r \in {get_doc(store[1], path)} :
                     Done(cmd, FromRead(r, ReplyArray(ReplyBulk(Serialize(r.v)))), store)

\* JSON.TYPE <key> <path>
json_type ==
    /\ CanStep
    /\ \E path \in {RootPath, <<"a">>} :
          LET cmd == [NoCmd EXCEPT !.cmd = "TYPE", !.path = path]
          IN IF store = <<>> THEN Done(cmd, ReplyNil, store)
             ELSE \E r \in {get_doc(store[1], path)} :
                     Done(cmd, FromRead(r, ReplyStr(value_name(r.v))), store)

\* JSON.STRLEN / ARRLEN / OBJLEN <key> <path>, through json_len
json_len ==
    /\ CanStep
    /\ \E type \in {"string", "array", "object"}, path \in {<<"b">>} :
          LET cmd == [NoCmd EXCEPT !.cmd = "LEN", !.fun = type, !.path = path]
          IN IF store = <<>> THEN Done(cmd, ReplyNil, store)
             ELSE \E r \in {len_of(store[1], path, type)} :
                     Done(cmd, FromRead(r, ReplyInt(r.int)), store)

\* JSON.OBJKEYS <key> <path>
json_obj_keys ==
    /\ CanStep
    /\ \E path \in {RootPath, <<"a">>} :
          LET cmd == [NoCmd EXCEPT !.cmd = "OBJKEYS", !.path = path]
          IN IF store = <<>> THEN Done(cmd, ReplyNil, store)
             ELSE \E r \in {get_doc(store[1], path)} :
                     Done(cmd,
                          IF ~r.ok THEN ReplyErr(r.msg)
                          ELSE IF ~IsObject(r.v) THEN ReplyErr("ERR wrong type of path value")
                          ELSE ReplyKeys(r.v.keys),
                          store)

(***************************************************************************)
(* Persistence: the type methods rdb_save and rdb_load of REDIS_JSON_TYPE.  *)
(***************************************************************************)
JSON_TYPE_ENCODING_VERSION == 2

\* json_rdb_save: raw::save_string(rdb, &json.data.to_string()); Redis
\* writes the value under the encoding version the type was registered with
rdb_save(data) == [encver |-> JSON_TYPE_ENCODING_VERSION, text |-> Serialize(data)]

\* load of any encoding version as if it were the current one
rdb_load_any_version(text, encver) ==
    Bind(from_str(text), LAMBDA r :
        IF r.ok THEN [ok |-> TRUE, v |-> r.v] ELSE [ok |-> FALSE, v |-> JNull])

\* json_rdb_load, for the encoding versions other than 0 (version 0 is read
\* by backward::json_rdb_load): version 2 parses the saved string and
\* unwraps, any other version panics
rdb_load(text, encver) ==
    IF encver = JSON_TYPE_ENCODING_VERSION
    THEN Bind(from_str(text), LAMBDA r :
             IF r.ok THEN [ok |-> TRUE, v |-> r.v] ELSE [ok |-> FALSE, v |-> JNull])
    ELSE [ok |-> FALSE, v |-> JNull]

\* Redis saves the key: rdb_save is called when the key holds a document
json_rdb_save ==
    /\ CanStep
    /\ store # <<>>
    /\ \E saved \in {rdb_save(store[1])} :
          /\ rdb' = <<saved>>
          /\ Step([NoCmd EXCEPT !.cmd = "SAVE", !.text = saved.text,
                                !.index = saved.encver],
                  ReplyOk, store)

\* encoding versions a file may carry besides the one it was saved under:
\* the ones before and after the current one
LoadVersions == {JSON_TYPE_ENCODING_VERSION - 1, JSON_TYPE_ENCODING_VERSION + 1}

\* Redis starts from the RDB file: the key holds what json_rdb_load
\* returns; a panic in it ends the server with nothing loaded
json_rdb_load ==
    /\ CanStep
    /\ rdb # <<>>
    /\ \E encver \in {rdb[1].encver} \cup LoadVersions :
          \E r \in {rdb_load(rdb[1].text, encver)} :
             /\ UNCHANGED rdb
             /\ Step([NoCmd EXCEPT !.cmd = "LOAD", !.text = rdb[1].text,
                                   !.index = encver],
                     IF r.ok THEN ReplyOk ELSE Panicked,
                     IF r.ok THEN <<r.v>> ELSE <<>>)

Next ==
    \/ json_del
    \/ json_set
    \/ json_num_op
    \/ json_str_append
    \/ json_arr_append
    \/ json_arr_insert
    \/ json_arr_pop
    \/ json_arr_trim
    \/ json_arr_index
    \/ json_get
    \/ json_mget
    \/ json_type
    \/ json_len
    \/ json_obj_keys
    \/ json_rdb_save
    \/ json_rdb_load

Spec == Init /\ [][Next]_vars

(***************************************************************************)
(* add_value on its own: documents with several containers, and paths     *)
(* whose prefix matches one, several or none of them.                      *)
(***************************************************************************)
DocContainers ==
    JObj(<<"x", "y", "z">>, <<JObj(<<>>, <<>>), JObj(<<"c">>, <<JInt(1)>>), JInt(2)>>)
DocContainersRev ==
    JObj(<<"y", "x", "z">>, <<JObj(<<"c">>, <<JInt(1)>>), JObj(<<>>, <<>>), JInt(2)>>)
DocEmptyObjects == JObj(<<"x", "y">>, <<JObj(<<>>, <<>>), JObj(<<>>, <<>>)>>)
AddDocs == SeedDocs \cup {DocContainers, DocContainersRev, DocEmptyObjects}
AddPaths == {<<"a">>, <<"c">>, <<"x", "c">>, <<"y", "c">>, <<"z", "c">>, <<Wild, "c">>,
             <<Wild>>, BadPath}
AddValues == {JInt(5), JNull}

InitAddValue ==
    /\ store \in {<<d>> : d \in AddDocs}
    /\ overflowChecks \in BOOLEAN
    /\ crashed = FALSE
    /\ last = NoCmd
    /\ steps = 0
    /\ rdb = <<>>

\* self.add_value(path, value) on the document
call_add_value ==
    /\ CanStep
    /\ \E path \in AddPaths, value \in AddValues :
          \E r \in {add_value(store[1], path, value)} :
             Done([NoCmd EXCEPT !.cmd = "add_value", !.path = path,
                               !.text = Serialize(value)],
                  IF r.ok THEN ReplyValue(JBool(r.val)) ELSE ReplyErr(r.msg),
                  <<r.data>>)

NextAddValue == call_add_value

SpecAddValue == InitAddValue /\ [][NextAddValue]_vars

(***************************************************************************)
(* The claims.  Each is stated over the last command: its arguments, the   *)
(* store before it (last.before), its reply and the store after it.        *)
(***************************************************************************)
ValueOpCmds == {"NUM", "STRAPPEND", "ARRAPPEND", "ARRINSERT", "ARRPOP", "ARRTRIM"}
MutatingCmds == ValueOpCmds \cup {"SET", "DEL"}
ReadCmds == {"GET", "MGET", "TYPE", "LEN", "OBJKEYS"}

Before == last.before[1]
After == store[1]
\* the nodes the path of the last command matched in the document before it
Matched == Select(Before, last.path)
WellFormed == ~IsMalformed(last.path)

\* C1: when a mutating command (SET, DEL of a non-root path, the numeric
\* commands, STRAPPEND, ARRAPPEND, ARRINSERT, ARRPOP, ARRTRIM) replies an
\* error, the document under the key is the document before the command.
C1_ErrorLeavesDocument ==
    (last.cmd \in MutatingCmds /\ last.before # <<>> /\ last.reply.kind = "err")
        => store = last.before

\* the result of the transform on each match in turn, the closure's
\* captures carried from one match to the next
RECURSIVE Outcomes(_, _, _, _, _, _)
Outcomes(data, locs, i, op, cs, checks) ==
    IF i > Len(locs) THEN <<>>
    ELSE Bind(Transform(op, cs, GetAt(data, locs[i]), checks), LAMBDA r :
             <<r>> \o Outcomes(data, locs, i + 1, op, r.cs, checks))
\* the messages of the failed matches, one after the other
RECURSIVE FailureText(_, _)
FailureText(outs, i) ==
    IF i > Len(outs) THEN ""
    ELSE (IF outs[i].ok THEN "" ELSE outs[i].msg) \o FailureText(outs, i + 1)
LastOutcomes == Outcomes(Before, Matched, 1, OpOf(last), CaptureOf(last), overflowChecks)
Failed(outs) == {i \in 1..Len(outs) : ~outs[i].ok}

\* a command through value_op whose path matched several nodes, the
\* transform failing on at least one of them (and panicking on none)
PartialFailure ==
    /\ last.cmd \in ValueOpCmds /\ last.before # <<>>
    /\ last.path # RootPath /\ WellFormed
    /\ last.reply.kind # "panic"
    /\ Len(Matched) >= 2
    /\ Failed(LastOutcomes) # {}

\* C2: when the path of a command through value_op matches several nodes
\* and the transform fails on some: every match whose transform succeeds
\* holds the new value, every match whose transform fails holds its
\* original value, the reply is an error; with one failure its message is
\* that failure's message, with several it is their messages concatenated
\* in match order.
C2_PartialFailure ==
    PartialFailure =>
        LET outs == LastOutcomes
        IN /\ \A i \in 1..Len(Matched) :
                  GetAt(After, Matched[i]) =
                      IF outs[i].ok THEN outs[i].val ELSE GetAt(Before, Matched[i])
           /\ last.reply.kind = "err"
           /\ \A i \in Failed(outs) : Failed(outs) = {i} => last.reply.msg = outs[i].msg
           /\ last.reply.msg = FailureText(outs, 1)

\* witness of C2: two matches failed and one succeeded
C2_Witness ==
    /\ PartialFailure
    /\ Cardinality(Failed(LastOutcomes)) >= 2
    /\ Cardinality(Failed(LastOutcomes)) < Len(Matched)

\* C3: on an existing document, SET NX at a non-root path whose target is
\* absent inserts the value and replies OK; SET NX at a path whose target
\* exists replies nil and changes nothing; SET XX whose key or target is
\* absent replies nil and changes nothing.
C3_SetGuards ==
    (last.cmd = "SET" /\ from_str(last.text).ok /\ WellFormed) =>
        /\ (/\ last.before # <<>> /\ last.opt = "NX" /\ last.path # RootPath
            /\ IsObject(Before) /\ Matched = <<>>)
              => /\ last.reply.kind = "ok"
                 /\ Select(After, last.path) # <<>>
                 /\ GetAt(After, Select(After, last.path)[1]) = from_str(last.text).v
        /\ (last.before # <<>> /\ last.opt = "NX" /\ Matched # <<>>)
              => (last.reply.kind = "nil" /\ store = last.before)
        /\ (last.opt = "XX" /\ (last.before = <<>> \/ Matched = <<>>))
              => (last.reply.kind = "nil" /\ store = last.before)

\* DEL of a well-formed path on a key that holds a document
DelOnDocument == last.cmd = "DEL" /\ last.before # <<>> /\ WellFormed

\* C4 as claimed: DEL of the root removes the key; DEL of a non-root path
\* that matches n nodes removes them and replies n.
C4_DelRepliesMatchCount ==
    DelOnDocument =>
        IF last.path = RootPath THEN store = <<>>
        ELSE /\ last.reply = ReplyInt(Len(Matched))
             /\ store # <<>> /\ Select(After, last.path) = <<>>

NonNullMatched == {i \in 1..Len(Matched) : GetAt(Before, Matched[i]) # JNull}

\* C4, amended: DEL of the root removes the key, and a GET of a key that
\* holds nothing replies nil; DEL of a non-root path removes the nodes it
\* matches and replies the number of matched nodes that are not null.
C4_DelRepliesNonNullCount ==
    /\ DelOnDocument =>
          IF last.path = RootPath THEN store = <<>> /\ last.reply = ReplyInt(1)
          ELSE /\ last.reply = ReplyInt(Cardinality(NonNullMatched))
               /\ store # <<>> /\ Select(After, last.path) = <<>>
               /\ Len(After.items) = Len(Before.items) - Len(Matched)
    /\ (last.cmd = "GET" /\ last.before = <<>>) => last.reply = ReplyNil

\* witness of C4: a DEL that matched a null node and a node that is not null
C4_Witness ==
    /\ DelOnDocument /\ last.path # RootPath
    /\ Cardinality(NonNullMatched) >= 1
    /\ Cardinality(NonNullMatched) < Len(Matched)

\* the one node the path of the last command matched
Target == GetAt(Before, Matched[1])
OnOneNode == last.before # <<>> /\ WellFormed /\ Len(Matched) = 1

\* ARRTRIM whose path matched one array
TrimOnArray == last.cmd = "ARRTRIM" /\ OnOneNode /\ IsArray(Target)

\* C5: ARRTRIM on an array of length L clamps stop into [0, L-1] and start
\* into [0, stop]; afterwards the array holds the original elements at
\* positions start through stop, both ends kept, in their order, and the
\* reply is the new length; this for every L >= 0.
C5_ArrTrimKeepsRange ==
    TrimOnArray =>
        LET items == Target.items
            L == Len(items)
            stop == Max(0, Min(last.stop, L - 1))
            start == Max(0, Min(last.start, stop))
            kept == IF L = 0 THEN <<>> ELSE SubSeq(items, start + 1, stop + 1)
        IN /\ store # <<>>
           /\ GetAt(After, Matched[1]) = JArr(kept)
           /\ last.reply = ReplyInt(Len(kept))

\* ARRINDEX whose path matched one array, the needle being JSON text
IndexOnArray ==
    /\ last.cmd = "ARRINDEX" /\ OnOneNode /\ IsArray(Target)
    /\ from_str(last.text).ok

\* C6: ARRINDEX on an array replies -1 when the needle is an array or an
\* object and -1 when no element in the clamped range equals it (the empty
\* array included); otherwise it replies the smallest index in the clamped
\* [start, end] whose element equals the needle.  It never fails or crashes.
C6_ArrIndexNeverFails ==
    IndexOnArray =>
        LET arr == Target.items
            L == Len(arr)
            v == from_str(last.text).v
            hi == Min(last.stop, L - 1)
            lo == Min(last.start, hi)
            hits == {i \in 0..(L - 1) : lo <= i /\ i <= hi /\ arr[i + 1] = v}
        IN last.reply =
              ReplyInt(IF IsArray(v) \/ IsObject(v) \/ hits = {} THEN -1
                       ELSE CHOOSE i \in hits : \A j \in hits : i <= j)

\* ARRPOP whose path matched one node
PopOnOneNode == last.cmd = "ARRPOP" /\ OnOneNode

\* C7: ARRPOP on an array of length L >= 1 removes the last element when no
\* index is given; a negative index i is counted from the end (L + i) and
\* the resulting index is clamped into [0, L-1]; the element there is
\* removed, the others keep their order, and the reply is the removed
\* element serialized.  On a target that is not an array, or an empty
\* array, the reply is an error and nothing changes.
C7_ArrPopClamps ==
    PopOnOneNode =>
        LET items == Target.items
            L == Len(items)
            i == last.index
            r == Max(0, Min(IF i < 0 THEN L + i ELSE i, L - 1))
        IN IF IsArray(Target) /\ L >= 1
           THEN /\ last.reply = ReplyBulk(Serialize(items[r + 1]))
                /\ store # <<>>
                /\ GetAt(After, Matched[1]) = JArr(VecRemove(items, r))
           ELSE last.reply.kind = "err" /\ store = last.before

\* ARRINSERT of values that parse, its path matching one array
InsertOnArray ==
    /\ last.cmd = "ARRINSERT" /\ OnOneNode /\ IsArray(Target)
    /\ ParseAll(last.texts, 1).ok

\* C8: ARRINSERT on an array of length L with index i and values v1..vk is
\* rejected with the out-of-bounds error, the array left as it was, exactly
\* when abs(i) >= L; otherwise the values stand at r, r+1, ..., r+k-1 in
\* argument order, r = i for i >= 0 and r = L + i for i < 0, the original
\* elements in their order around them.
C8_ArrInsertBounds ==
    InsertOnArray =>
        LET items == Target.items
            L == Len(items)
            i == last.index
            vs == ParseAll(last.texts, 1).vs
            r == IF i >= 0 THEN i ELSE L + i
        IN IF AbsInt(i) >= L
           THEN last.reply = ReplyErr("ERR index out of bounds") /\ store = last.before
           ELSE /\ store # <<>>
                /\ last.reply.kind = "value"
                /\ GetAt(After, Matched[1]) =
                      JArr(SubSeq(items, 1, r) \o vs \o SubSeq(items, r + 1, L))

\* NUMINCRBY / NUMMULTBY / NUMPOWBY whose path matched one number
NumOnNumber == last.cmd = "NUM" /\ OnOneNode /\ Target.t = "number"
\* the result of +, * or pow on the stored number and the argument
NumResult ==
    CASE last.fun = "incr" -> FAdd(Target.n, last.number)
      [] last.fun = "mult" -> FMul(Target.n, last.number)
      [] last.fun = "pow" -> FPow(Target.n, last.number)
\* no number in the value is NaN or an infinity
RECURSIVE AllFinite(_)
AllFinite(v) ==
    /\ v.t = "number" => is_finite(v.n)
    /\ \A j \in 1..Len(v.items) : AllFinite(v.items[j])

\* C9: a numeric command on a number fails with the arithmetic error
\* exactly when the result of +, * or pow is NaN or infinite, and the
\* stored number is then unchanged; otherwise the stored number becomes the
\* result and the reply is the result.  No document ever holds a number
\* that is not finite.
C9_NumFiniteOnly ==
    /\ NumOnNumber =>
          IF is_finite(NumResult)
          THEN /\ last.reply = ReplyValue(JFloat(NumResult))
               /\ store # <<>>
               /\ GetAt(After, Matched[1]) = JFloat(NumResult)
          ELSE /\ last.reply = ReplyErr("ERR cannot represent result as Number")
               /\ store = last.before
    /\ store # <<>> => AllFinite(After)

\* witness of C9: a numeric command on a number was refused for its result
C9_Witness ==
    /\ NumOnNumber /\ ~is_finite(NumResult)
    /\ last.reply.kind = "err" /\ store = last.before

\* a command on a key that holds no document
OnAbsentKey == last.cmd # "" /\ last.before = <<>>
AbsentReplies == {ReplyNil, ReplyArray(ReplyNil)}

\* C10 as claimed: on a key that holds no document DEL and every command
\* through value_op fail with the key error, every read replies an absent
\* result, and the key stays absent.
C10_AbsentKeyErrors ==
    OnAbsentKey =>
        /\ last.cmd \in ValueOpCmds \cup {"DEL"} =>
              (last.reply = ReplyErr(KeyErrorMsg) /\ store = <<>>)
        /\ last.cmd \in ReadCmds => (last.reply \in AbsentReplies /\ store = <<>>)

\* C10, amended: on a key that holds no document every command through
\* value_op fails with the key error, DEL replies 0, every read (GET, MGET,
\* TYPE, the length commands, OBJKEYS) replies an absent result, and the
\* key stays absent.
C10_AbsentKeyDelZero ==
    OnAbsentKey =>
        /\ last.cmd \in ValueOpCmds =>
              (last.reply = ReplyErr(KeyErrorMsg) /\ store = <<>>)
        /\ last.cmd = "DEL" => (last.reply = ReplyInt(0) /\ store = <<>>)
        /\ last.cmd \in ReadCmds => (last.reply \in AbsentReplies /\ store = <<>>)

\* witness of C10: DEL was issued on a key that holds no document
C10_Witness == OnAbsentKey /\ last.cmd = "DEL" /\ last.reply.kind = "int" /\ store = <<>>

\* C11: on an existing document, after DEL of a non-root path has removed
\* one node (reply 1), a GET of the same path replies nil, not an error.
C11_GetAfterDelNil ==
    [][(/\ last.cmd = "DEL" /\ last.before # <<>> /\ last.path # RootPath
        /\ last.reply = ReplyInt(1)
        /\ last'.cmd = "GET" /\ last'.path = last.path)
          => last'.reply = ReplyNil]_vars

\* C12: save writes the serialized root value under encoding version 2;
\* loading that text with version 2 yields a document whose serialized
\* form is the serialized form before the save; a load with a version
\* other than 0 or 2 is fatal and yields no document.
C12_PersistenceRoundTrip ==
    /\ last.cmd = "SAVE" =>
          /\ rdb = <<[encver |-> 2, text |-> Serialize(Before)]>>
          /\ store = last.before
          /\ \E r \in {rdb_load(rdb[1].text, 2)} :
                r.ok /\ Serialize(r.v) = Serialize(Before)
    /\ last.cmd = "LOAD" =>
          IF last.index = 2
          THEN /\ last.reply = ReplyOk /\ ~crashed
               /\ store # <<>> /\ Serialize(After) = last.text
          ELSE last.index # 0 => (crashed /\ store = <<>>)

\* witness of C12: a document was saved and then loaded under version 2
C12_Witness ==
    /\ last.cmd = "LOAD" /\ last.index = 2
    /\ rdb # <<>> /\ store # <<>> /\ Serialize(After) = rdb[1].text

\* SET of the root path, without a guard, of text that is a JSON value
SetRootOf(cmd) ==
    /\ cmd.cmd = "SET" /\ cmd.path = RootPath /\ cmd.opt = ""
    /\ from_str(cmd.text).ok

\* C13: for every valid JSON value V and every prior state of the key,
\* SET k $ V without a guard replies OK and the key holds V, and a GET k $
\* that follows replies serialize(V).
C13_SetRootThenGet ==
    [][/\ SetRootOf(last') =>
             (last'.reply = ReplyOk /\ store' = <<from_str(last'.text).v>>)
       /\ (SetRootOf(last) /\ last'.cmd = "GET" /\ last'.path = RootPath) =>
             last'.reply = ReplyBulk(Serialize(from_str(last.text).v))]_vars

\* witness of C13: GET k $ replied the serialized object that only a SET
\* of the root can have stored
C13_Witness ==
    /\ last.cmd = "GET" /\ last.path = RootPath
    /\ store = <<from_str(TextObj).v>> /\ last.before = store
    /\ last.reply = ReplyBulk(TextObj)

\* add_value returned Ok for a path prefix.key
AddValueOk == last.cmd = "add_value" /\ WellFormed /\ last.reply.kind = "value"
AddKey == last.path[Len(last.path)]
\* the containers the prefix resolved to, in the order they were visited
Containers == Select(Before, SubSeq(last.path, 1, Len(last.path) - 1))
\* the matched containers that are objects and do not have the key
Insertable ==
    {i \in 1..Len(Containers) :
        /\ IsObject(GetAt(Before, Containers[i]))
        /\ KeyIndex(GetAt(Before, Containers[i]), AddKey) = 0}
\* the key was inserted in exactly the containers that could take it
InsertedWhereAbsent ==
    \A i \in 1..Len(Containers) :
        GetAt(After, Containers[i]) =
            IF i \in Insertable
            THEN MapInsert(GetAt(Before, Containers[i]), AddKey, from_str(last.text).v)
            ELSE GetAt(Before, Containers[i])

\* C14: add_value(doc, prefix.key, value) inserts the key in exactly the
\* matched containers that are objects and do not have it, leaves the other
\* containers as they are, and returns true exactly when at least one
\* insertion occurred, in whatever order the containers were visited.
C14_AddValueReturnsAny ==
    AddValueOk =>
        /\ InsertedWhereAbsent
        /\ last.reply = ReplyValue(JBool(Insertable # {}))

\* ARRINSERT or ARRPOP whose path matched several nodes, none of the
\* transforms panicking
SeveralMatched ==
    /\ last.cmd \in {"ARRINSERT", "ARRPOP"} /\ last.before # <<>>
    /\ WellFormed /\ Len(Matched) >= 2
    /\ last.reply.kind # "panic"
\* the transform of the call applied to match i as if it were the only one
Alone(i) ==
    Transform(OpOf(last), CaptureOf(last), GetAt(Before, Matched[i]), overflowChecks)

\* C15: when the path of ARRINSERT or ARRPOP matches several arrays, each
\* matched array ends as it would have, had it been the only match: with
\* the index and the values given in the call.
C15_MatchesIndependent ==
    SeveralMatched =>
        \A i \in 1..Len(Matched) :
            IsArray(GetAt(Before, Matched[i])) =>
                GetAt(After, Matched[i]) =
                    IF Alone(i).ok THEN Alone(i).val ELSE GetAt(Before, Matched[i])

\* a command through value_op whose well-formed non-root path matched no
\* node of the document
NoMatch ==
    /\ last.cmd \in ValueOpCmds /\ last.before # <<>>
    /\ last.path # RootPath /\ WellFormed
    /\ Matched = <<>>

\* C16: a command through value_op whose well-formed non-root path matches
\* no node of an existing document never calls the transform, leaves the
\* document unchanged, and reports success with a null result, not a
\* path-not-found error.
C16_NoMatchSucceeds ==
    NoMatch =>
        /\ store = last.before
        /\ \E r \in {value_op(Before, last.path, OpOf(last), CaptureOf(last),
                              overflowChecks)} :
              /\ r.ok /\ r.errors = <<>> /\ ~r.panic
              /\ r.result = JNull
              /\ r.cs = CaptureOf(last)
              /\ r.data = Before
        /\ last.cmd \in {"NUM", "ARRINSERT", "ARRTRIM"} => last.reply = ReplyValue(JNull)
        /\ last.cmd = "ARRPOP" => last.reply = ReplyBulk(Serialize(JNull))
        /\ last.cmd \in {"STRAPPEND", "ARRAPPEND"} => last.reply.kind = "int"

\* witness of C16: ARRAPPEND on a path that matched nothing replied success
C16_Witness ==
    /\ NoMatch /\ last.cmd = "ARRAPPEND"
    /\ last.reply.kind = "int" /\ store = last.before

====
